---------------------------- MODULE Spec2Model ----------------------------
(***************************************************************************)
(* Displayed width of Unicode characters and strings (unicode-width).      *)
(*                                                                         *)
(* src/src/lib.rs holds the two traits (UnicodeWidthChar, UnicodeWidthStr) *)
(* and their implementations for char and str; both delegate to            *)
(* tables::charwidth::width (imported as cw), whose module is not part of  *)
(* the available source.  cw::width, the range tables and the table lookup *)
(* are therefore modelled after sections 3 and 4 of the specification.     *)
(*                                                                         *)
(* Option<usize> is modelled as a sequence of length at most one:          *)
(* None = <<>>, Some(w) = <<w>>.                                           *)
(***************************************************************************)
EXTENDS Integers, Sequences, FiniteSets, TLC

\* ----------------------------------------------------------------------
\* Bounds of the model
\* ----------------------------------------------------------------------

\* longest string passed to UnicodeWidthStr::width / width_cjk
MaxLen == 3

\* largest number of entries of a range table
MaxEntries == 4

\* ----------------------------------------------------------------------
\* Data model (specification, section 3)
\* ----------------------------------------------------------------------

None == <<>>

Some(w) == <<w>>

\* Option::unwrap_or, as used at lib.rs:101 and lib.rs:113
unwrap_or(o, d) == IF o = None THEN d ELSE o[1]

\* General Category Cc: [0x00, 0x1F] and [0x7F, 0x9F]
IsControl(c) == (0 <= c /\ c <= 31) \/ (127 <= c /\ c <= 159)

\* The control code points other than U+0000
Controls == (1..31) \cup (127..159)

\* Code points passed to the per-character operations: every control
\* character, and for every candidate range its bounds and the code points
\* just outside them, up to the largest scalar value 0x10FFFF.
Chars ==
    {0} \cup Controls \cup
    {32, 65, 126, 160, 161, 162, 767, 768, 800, 879, 880,
     4351, 4352, 4447, 4448,
     8320, 8321, 8322, 8324, 8325,
     65280, 65281, 65352, 65376, 65377,
     1048575, 1048576, 1114109, 1114110, 1114111}

\* Code points the strings are made of: NUL, a control, an ASCII letter,
\* a combining mark, an Ambiguous subscript digit, a fullwidth letter.
StrChars == {0, 1, 65, 768, 8321, 65352}

RECURSIVE SeqsUpTo(_, _)
SeqsUpTo(S, n) ==
    IF n = 0 THEN {<<>>}
    ELSE LET shorter == SeqsUpTo(S, n - 1)
         IN  shorter \cup {Append(s, c) : s \in {t \in shorter : Len(t) = n - 1}, c \in S}

Strings == SeqsUpTo(StrChars, MaxLen)

\* Candidate ranges (low, high, category), increasing and pairwise disjoint:
\* U+00A1 (Ambiguous), combining diacritics U+0300..U+036F (zero width),
\* Hangul Jamo initial consonants U+1100..U+115F (wide), subscript digits
\* U+2081..U+2084 (Ambiguous), fullwidth forms U+FF01..U+FF60 (wide),
\* plane 16 private use U+100000..U+10FFFD (Ambiguous).
RangePool ==
    << [low |-> 161,     high |-> 161,     cat |-> "Ambiguous"],
       [low |-> 768,     high |-> 879,     cat |-> "Zero"],
       [low |-> 4352,    high |-> 4447,    cat |-> "Wide"],
       [low |-> 8321,    high |-> 8324,    cat |-> "Ambiguous"],
       [low |-> 65281,   high |-> 65376,   cat |-> "Wide"],
       [low |-> 1048576, high |-> 1114109, cat |-> "Ambiguous"] >>

RECURSIVE SubPool(_, _)
SubPool(i, S) ==
    IF i > Len(RangePool) THEN <<>>
    ELSE (IF i \in S THEN <<RangePool[i]>> ELSE <<>>) \o SubPool(i + 1, S)

\* WidthClass of a category in a context: only Ambiguous depends on it.
ClassOf(cat, is_cjk) ==
    CASE cat = "Zero"      -> "Zero"
      [] cat = "Wide"      -> "Two"
      [] cat = "Ambiguous" -> IF is_cjk THEN "Two" ELSE "One"

\* Columns of a WidthClass: Zero -> 0, One -> 1, Two -> 2
width_of(class) ==
    CASE class = "Zero" -> 0
      [] class = "One"  -> 1
      [] class = "Two"  -> 2

\* RangeEntry (low, high, class) of the table used in one context
RangeTable(rs, is_cjk) ==
    [i \in 1..Len(rs) |->
        [low |-> rs[i].low, high |-> rs[i].high, class |-> ClassOf(rs[i].cat, is_cjk)]]

\* Table invariant: low <= high, strictly increasing by low, no overlap
IsRangeTable(t) ==
    /\ \A i \in 1..Len(t) : t[i].low <= t[i].high
    /\ \A i \in 1..(Len(t) - 1) : t[i].high < t[i + 1].low

\* The generated ranges the two tables are built from
RangeSets ==
    {SubPool(1, S) : S \in {X \in SUBSET (1..Len(RangePool)) : Cardinality(X) <= MaxEntries}}

\* ----------------------------------------------------------------------
\* Range Table lookup (specification, section 4.1)
\* ----------------------------------------------------------------------

\* Binary search in t[lo .. hi-1]; Some(class) or None for a gap
RECURSIVE bsearch(_, _, _, _)
bsearch(t, c, lo, hi) ==
    IF lo >= hi THEN None
    ELSE LET mid == (lo + hi) \div 2
         IN  IF t[mid].low <= c /\ c <= t[mid].high THEN Some(t[mid].class)
             ELSE IF t[mid].high < c THEN bsearch(t, c, mid + 1, hi)
             ELSE bsearch(t, c, lo, mid)

lookup(t, c) == bsearch(t, c, 1, Len(t) + 1)

\* ----------------------------------------------------------------------
\* State
\* ----------------------------------------------------------------------

VARIABLES
    ranges,   \* the generated ranges with their categories (never written)
    tables,   \* the two RangeTables: tables.ncjk and tables.cjk
    pc,       \* "idle": the caller is about to call; "returned": a call returned
    op,       \* the operation that returned ("none" while idle)
    argc,     \* its code point argument (per-character operations)
    args,     \* its string argument (string operations)
    cres,     \* the Option<usize> a per-character operation returned
    sres,     \* the usize a string operation returned
    first,    \* per watched (code point, context): the first result returned
    repeat    \* the returned lookup had been made before

vars == <<ranges, tables, pc, op, argc, args, cres, sres, first, repeat>>

\* Code points whose first lookup result is remembered
Watched == {8321}

\* ----------------------------------------------------------------------
\* Width Resolver (specification, section 4.2): tables::charwidth::width
\* ----------------------------------------------------------------------

cw_width(c, is_cjk) ==
    IF c = 0 THEN Some(0)
    ELSE IF IsControl(c) THEN None
    ELSE LET found == lookup(IF is_cjk THEN tables.cjk ELSE tables.ncjk, c)
         IN  IF found = None THEN Some(1) ELSE Some(width_of(found[1]))

\* ----------------------------------------------------------------------
\* impl UnicodeWidthChar for char (lib.rs:64-82)
\* ----------------------------------------------------------------------

\* Variant: the wrapper screens control characters itself, U+0000 included
width_screens_nul(c) == IF IsControl(c) THEN None ELSE cw_width(c, FALSE)

\* Variant: a zero width is reported as absent
width_drops_zero(c) == IF cw_width(c, FALSE) = Some(0) THEN None ELSE cw_width(c, FALSE)

UnicodeWidthChar_width(c) == cw_width(c, FALSE)

\* Variant: the absence is absorbed as in the string operations
width_cjk_absorbs_none(c) == Some(unwrap_or(cw_width(c, TRUE), 0))

\* Variant: the CJK operation passes the non-CJK flag
width_cjk_wrong_flag(c) == cw_width(c, FALSE)

\* Variant: the CJK operation searches the non-CJK table outside the controls
width_cjk_wrong_table(c) == IF IsControl(c) THEN cw_width(c, TRUE) ELSE cw_width(c, FALSE)

\* Variant: a result remembered per code point, whatever the context
width_cjk_memo(c) ==
    IF c \in Watched /\ first[<<c, FALSE>>] # <<"unset">>
    THEN first[<<c, FALSE>>][1]
    ELSE cw_width(c, TRUE)

UnicodeWidthChar_width_cjk(c) == cw_width(c, TRUE)

\* ----------------------------------------------------------------------
\* impl UnicodeWidthStr for str (lib.rs:91-115)
\* ----------------------------------------------------------------------

\* Iterator::sum over the mapped widths: a left fold from 0
RECURSIVE sum(_, _)
sum(ws, acc) == IF ws = <<>> THEN acc ELSE sum(Tail(ws), acc + Head(ws))

\* Variant: one column per code point
str_width_counts_chars(s) == Len(s)

\* Variant: an absent width counts as one column
str_width_absent_one(s) ==
    sum([i \in 1..Len(s) |-> unwrap_or(cw_width(s[i], FALSE), 1)], 0)

\* self.chars().map(|c| cw::width(c, false).unwrap_or(0)).sum()
UnicodeWidthStr_width(s) ==
    sum([i \in 1..Len(s) |-> unwrap_or(cw_width(s[i], FALSE), 0)], 0)

\* Variant: the CJK sum passes the non-CJK flag
str_width_cjk_wrong_flag(s) ==
    sum([i \in 1..Len(s) |-> unwrap_or(cw_width(s[i], FALSE), 0)], 0)

\* Variant: the CJK sum skips the first code point
str_width_cjk_skips_first(s) ==
    sum([i \in 1..(Len(s) - 1) |-> unwrap_or(cw_width(s[i + 1], TRUE), 0)], 0)

\* self.chars().map(|c| cw::width(c, true).unwrap_or(0)).sum()
UnicodeWidthStr_width_cjk(s) ==
    sum([i \in 1..Len(s) |-> unwrap_or(cw_width(s[i], TRUE), 0)], 0)

\* ----------------------------------------------------------------------
\* Behaviour
\* ----------------------------------------------------------------------

Unset == <<"unset">>

Init ==
    /\ ranges \in RangeSets
    /\ tables = [ncjk |-> RangeTable(ranges, FALSE), cjk |-> RangeTable(ranges, TRUE)]
    /\ pc = "idle"
    /\ op = "none"
    /\ argc = 0
    /\ args = <<>>
    /\ cres = None
    /\ sres = 0
    /\ first = [k \in Watched \X BOOLEAN |-> Unset]
    /\ repeat = FALSE

\* Bookkeeping of a per-character call that returned r
Remember(c, is_cjk, r) ==
    IF c \in Watched
    THEN /\ repeat' = (first[<<c, is_cjk>>] # Unset)
         /\ first' = IF first[<<c, is_cjk>>] = Unset
                      THEN [first EXCEPT ![<<c, is_cjk>>] = <<r>>]
                      ELSE first
    ELSE /\ repeat' = FALSE
         /\ first' = first

\* c.width() for some char c
CharWidth ==
    /\ pc = "idle"
    /\ \E c \in Chars :
        /\ pc' = "returned"
        /\ op' = "char_width"
        /\ argc' = c
        /\ cres' = UnicodeWidthChar_width(c)
        /\ Remember(c, FALSE, cres')
        /\ UNCHANGED <<ranges, tables, args, sres>>

\* c.width_cjk() for some char c
CharWidthCjk ==
    /\ pc = "idle"
    /\ \E c \in Chars :
        /\ pc' = "returned"
        /\ op' = "char_width_cjk"
        /\ argc' = c
        /\ cres' = UnicodeWidthChar_width_cjk(c)
        /\ Remember(c, TRUE, cres')
        /\ UNCHANGED <<ranges, tables, args, sres>>

\* s.width() for some str s
StrWidth ==
    /\ pc = "idle"
    /\ \E s \in Strings :
        /\ pc' = "returned"
        /\ op' = "str_width"
        /\ args' = s
        /\ sres' = UnicodeWidthStr_width(s)
        /\ UNCHANGED <<ranges, tables, argc, cres, first, repeat>>

\* s.width_cjk() for some str s
StrWidthCjk ==
    /\ pc = "idle"
    /\ \E s \in Strings :
        /\ pc' = "returned"
        /\ op' = "str_width_cjk"
        /\ args' = s
        /\ sres' = UnicodeWidthStr_width_cjk(s)
        /\ UNCHANGED <<ranges, tables, argc, cres, first, repeat>>

\* The caller takes the result and goes on to its next call
Caller ==
    /\ pc = "returned"
    /\ pc' = "idle"
    /\ op' = "none"
    /\ argc' = 0
    /\ args' = <<>>
    /\ cres' = None
    /\ sres' = 0
    /\ repeat' = FALSE
    /\ UNCHANGED <<ranges, tables, first>>

Next ==
    \/ CharWidth
    \/ CharWidthCjk
    \/ StrWidth
    \/ StrWidthCjk
    \/ Caller

Spec == Init /\ [][Next]_vars

TypeOK ==
    /\ ranges \in RangeSets
    /\ pc \in {"idle", "returned"}
    /\ op \in {"none", "char_width", "char_width_cjk", "str_width", "str_width_cjk"}
    /\ argc \in Chars
    /\ args \in Strings
    /\ cres \in {None} \cup {Some(w) : w \in 0..2}
    /\ sres \in Nat

\* ----------------------------------------------------------------------
\* Properties
\* ----------------------------------------------------------------------

CharReturned == pc = "returned" /\ op \in {"char_width", "char_width_cjk"}

StrReturned == pc = "returned" /\ op \in {"str_width", "str_width_cjk"}

\* The context flag of the operation that returned
IsCjk == op \in {"char_width_cjk", "str_width_cjk"}

\* c lies in a generated range of category cat
InCategory(c, cat) ==
    \E i \in 1..Len(ranges) :
        ranges[i].cat = cat /\ ranges[i].low <= c /\ c <= ranges[i].high

\* The per-character operation of a context
CharApi(c, is_cjk) ==
    IF is_cjk THEN UnicodeWidthChar_width_cjk(c) ELSE UnicodeWidthChar_width(c)

\* Sum of the per-character widths of s, None counted as 0
RECURSIVE CharSum(_, _)
CharSum(s, is_cjk) ==
    IF s = <<>> THEN 0
    ELSE CharSum(SubSeq(s, 1, Len(s) - 1), is_cjk)
         + (IF CharApi(s[Len(s)], is_cjk) = None THEN 0 ELSE CharApi(s[Len(s)], is_cjk)[1])

\* Number of positions of s holding an Ambiguous code point
NumAmbiguous(s) == Cardinality({i \in 1..Len(s) : InCategory(s[i], "Ambiguous")})

\* C1: the width a string operation returns is the sum, over the code
\* points of the string, of the width the per-character operation of the
\* same context returns, None counting as 0.
C1_StrWidthIsSumOfCharWidths ==
    StrReturned => sres = CharSum(args, IsCjk)

C1_Witness ==
    /\ StrReturned
    /\ op = "str_width_cjk"
    /\ Len(args) >= 2
    /\ args[1] = 8321
    /\ \E i \in 1..Len(args) : args[i] = 1
    /\ sres >= 2

\* C2: in both contexts the per-character operations return None for every
\* control code point in [0x01, 0x1F] or [0x7F, 0x9F].
C2_ControlIsNone ==
    (CharReturned /\ argc \in Controls) => cres = None

C2_Witness ==
    /\ CharReturned
    /\ op = "char_width_cjk"
    /\ argc = 159
    /\ cres = None

\* C3: in both contexts the per-character operations return Some(0) for
\* U+0000, never None.
C3_NulIsSomeZero ==
    (CharReturned /\ argc = 0) => cres = Some(0)

C3_Witness ==
    /\ CharReturned
    /\ op = "char_width"
    /\ argc = 0
    /\ cres = Some(0)

\* C4: the two contexts return the same width for a code point outside the
\* Ambiguous ranges; inside them the non-CJK width is Some(1) and the CJK
\* width is Some(2).
C4_ContextsDifferOnlyOnAmbiguous ==
    CharReturned =>
        IF InCategory(argc, "Ambiguous")
        THEN /\ cres = (IF IsCjk THEN Some(2) ELSE Some(1))
             /\ CharApi(argc, ~IsCjk) = (IF IsCjk THEN Some(1) ELSE Some(2))
        ELSE cres = CharApi(argc, ~IsCjk)

C4_Witness ==
    /\ CharReturned
    /\ op = "char_width_cjk"
    /\ InCategory(argc, "Ambiguous")
    /\ cres = Some(2)
    /\ UnicodeWidthChar_width(argc) = Some(1)

\* C5: a per-character operation returns None or Some(w) with w in 0..2,
\* and None only for a control character other than U+0000.
C5_WidthRange ==
    CharReturned =>
        /\ cres \in {None} \cup {Some(w) : w \in 0..2}
        /\ cres = None => argc \in Controls

C5_Witness ==
    /\ CharReturned
    /\ ~IsControl(argc)
    /\ InCategory(argc, "Zero")
    /\ cres = Some(0)

\* C6: a code point of a wide range has width Some(2) in both contexts, and
\* a string of n such code points has width 2n in both contexts.
C6_WideIsTwo ==
    /\ (CharReturned /\ InCategory(argc, "Wide")) => cres = Some(2)
    /\ (StrReturned /\ \A i \in 1..Len(args) : InCategory(args[i], "Wide"))
           => sres = 2 * Len(args)

C6_Witness ==
    /\ StrReturned
    /\ op = "str_width"
    /\ Len(args) >= 2
    /\ \A i \in 1..Len(args) : InCategory(args[i], "Wide")
    /\ sres = 2 * Len(args)

\* C7: a string operation always returns a number, and returns 0 for a
\* string that holds only U+0000 and other control characters, the empty
\* string included.
C7_ControlsCountZero ==
    StrReturned =>
        /\ sres \in Nat
        /\ (\A i \in 1..Len(args) : IsControl(args[i])) => sres = 0

C7_Witness ==
    /\ StrReturned
    /\ op = "str_width"
    /\ Len(args) >= 2
    /\ \E i \in 1..Len(args) : args[i] = 0
    /\ \E i \in 1..Len(args) : args[i] = 1
    /\ \A i \in 1..Len(args) : IsControl(args[i])
    /\ sres = 0

C9_LookupFindsEntryOrGap ==
    (CharReturned /\ ~IsControl(argc)) =>
        LET t == IF IsCjk THEN tables.cjk ELSE tables.ncjk
            hits == {i \in 1..Len(t) : t[i].low <= argc /\ argc <= t[i].high}
        IN  /\ IsRangeTable(t)
            /\ Cardinality(hits) <= 1
            /\ \A i \in hits : cres = Some(width_of(t[i].class))
            /\ hits = {} => cres = Some(1)

C9_Witness ==
    /\ CharReturned
    /\ op = "char_width_cjk"
    /\ Len(tables.cjk) >= 3
    /\ argc = tables.cjk[Len(tables.cjk)].high
    /\ tables.cjk[Len(tables.cjk)].class = "Two"
    /\ cres = Some(2)

\* C10: the CJK width of a string is the non-CJK width plus the number of
\* Ambiguous code points in it, hence never smaller, and equal when the
\* string holds none.
C10_CjkExceedsByAmbiguous ==
    StrReturned =>
        IF IsCjk
        THEN /\ sres = UnicodeWidthStr_width(args) + NumAmbiguous(args)
             /\ sres >= UnicodeWidthStr_width(args)
        ELSE /\ UnicodeWidthStr_width_cjk(args) = sres + NumAmbiguous(args)
             /\ UnicodeWidthStr_width_cjk(args) >= sres

C10_Witness ==
    /\ StrReturned
    /\ op = "str_width_cjk"
    /\ NumAmbiguous(args) >= 2
    /\ \E i \in 1..Len(args) : ~InCategory(args[i], "Ambiguous")
    /\ sres > UnicodeWidthStr_width(args)

=============================================================================
